---- MODULE Spec2Model ----
(***************************************************************************)
(* Model of PairTradingStrategy (src/strategies/pair_trading.py) driven by *)
(* the backtest of src/run_backtest.py.                                    *)
(*                                                                         *)
(* Numbers.  Closes are small integers.  A Python float that can become    *)
(* inf or nan (betas, spread samples) is a record [tag, val] with tag      *)
(* "num", "inf" (val = sign) or "nan".  A z-score is never divided out: it *)
(* is kept as the pair (d, v) with                                         *)
(*     d = W*last - sum(window)      v = W*sum(x^2) - sum(x)^2             *)
(* so that z = d*sqrt(W-1)/sqrt(W*v), std = 0 iff v = 0, and every         *)
(* comparison of z with a threshold is an integer comparison.  Thresholds  *)
(* are held in halves (zscore_threshold = 2 stands for 1.0).               *)
(***************************************************************************)
EXTENDS Integers, Sequences, FiniteSets, TLC

VARIABLES cfg, started, stopped, period, arrived, bars, betas, spread, positions_open,
          orders, calc_pd, result, z_score, entry, error,
          estimation, data, samplesInPeriod, lastSample

vars == <<cfg, started, stopped, period, arrived, bars, betas, spread, positions_open,
          orders, calc_pd, result, z_score, entry, error,
          estimation, data, samplesInPeriod, lastSample>>

\* ------------------------------------------------------------------ bounds
\* config.formation_window (W), scaled down from its default of 200
formation_window == 3

\* number of bar events (both legs together) the backtest feeds
MaxBars == 9

\* ------------------------------------------------------------- the pair
\* 1 = config.instrument_id_1, 2 = config.instrument_id_2
Legs == {1, 2}

\* iteration order of the config.bar_type dict
bar_type == <<1, 2>>

\* closes a bar can carry
Prices == {1, 2}

\* the cache keeps the most recent bars per bar type, newest first
bar_capacity == formation_window + 1

\* (zscore_threshold, exit_zscore_threshold) in halves: 1.0/0.5 and the
\* inverted pair 0.5/1.0
Configs == { [zscore_threshold |-> 2, exit_zscore_threshold |-> 1],
             [zscore_threshold |-> 1, exit_zscore_threshold |-> 2] }

\* account balance returned by get_current_equity
Equities == {0, 100000}

\* ------------------------------------------------------ float arithmetic
Num(n) == [tag |-> "num", val |-> n]

NaN == [tag |-> "nan", val |-> 0]

Inf(s) == [tag |-> "inf", val |-> s]

Sign(n) == IF n > 0 THEN 1 ELSE IF n < 0 THEN -1 ELSE 0

\* a * b
FMul(a, b) ==
    IF a.tag = "nan" \/ b.tag = "nan" THEN NaN
    ELSE IF a.tag = "num" /\ b.tag = "num" THEN Num(a.val * b.val)
    ELSE IF Sign(a.val) * Sign(b.val) = 0 THEN NaN
    ELSE Inf(Sign(a.val) * Sign(b.val))

\* a + b
FAdd(a, b) ==
    IF a.tag = "nan" \/ b.tag = "nan" THEN NaN
    ELSE IF a.tag = "num" /\ b.tag = "num" THEN Num(a.val + b.val)
    ELSE IF a.tag = "inf" /\ b.tag = "inf"
         THEN (IF a.val = b.val THEN a ELSE NaN)
    ELSE IF a.tag = "inf" THEN a ELSE b

\* -e / c for numpy floats: a zero divisor gives inf or nan, not an exception
NegDiv(e, c) ==
    IF c # 0 THEN Num((0 - e) \div c)
    ELSE IF e = 0 THEN NaN
    ELSE Inf(Sign(0 - e))

\* ------------------------------------------------------------ estimator
\* leading eigenvectors coint_johansen can return (exactly divisible by
\* their last coefficient when it is not zero)
Evecs == { <<-2, 1>>, <<1, 0>> }

\* outcome of the try block of _update_betas: an exception, or an eigenvector
EstimatorOutcomes ==
    { [raises |-> TRUE, evec |-> <<0, 0>>] } \cup
    { [raises |-> FALSE, evec |-> e] : e \in Evecs }

\* how the estimation of a pass ended: the try block raised, the division by
\* the last coefficient was a division by zero, or neither
EstimationStatus(est) ==
    IF est.raises THEN "raised"
    ELSE IF est.evec[Len(est.evec)] = 0 THEN "ill_conditioned"
    ELSE "ok"

\* the closes _update_betas hands to the estimator for one leg:
\* [bar.close for bar in self.cache.bars(bar_type)[-formation_window:]]
PriceData(bs, l) ==
    LET n == Len(bs[l])
        from == IF n > formation_window THEN n - formation_window + 1 ELSE 1
    IN [i \in 1..(n - from + 1) |-> bs[l][from + i - 1].c]

\* betas after _update_betas
_update_betas(b, est) ==
    IF est.raises THEN b
    ELSE LET last_coeff == est.evec[Len(est.evec)]
         IN [l \in Legs |->
               LET i == CHOOSE k \in 1..Len(bar_type) : bar_type[k] = l
               IN NegDiv(est.evec[i], last_coeff)]

\* ------------------------------------------------------------- the cache
\* cache.add_bar: newest first, bounded
AddBar(bs, leg, b) ==
    [bs EXCEPT ![leg] = SubSeq(<<b>> \o @, 1,
                               IF Len(@) + 1 > bar_capacity
                               THEN bar_capacity ELSE Len(@) + 1)]

\* variant: one leg with enough bars suffices
_has_enough_bars_any(bs) ==
    \E l \in Legs : Len(bs[l]) >= formation_window

_has_enough_bars(bs) ==
    \A l \in Legs : Len(bs[l]) >= formation_window

\* variant: >= instead of >
_has_open_positions_ge(pos) == Cardinality(pos) >= 0

_has_open_positions(pos) == Cardinality(pos) > 0

\* ---------------------------------------------------------------- spread
RECURSIVE SpreadValue(_, _, _, _)
\* the accumulation loop of _update_spread from leg bar_type[i] on; the
\* result is "none" when a leg has no latest bar
SpreadValue(i, acc, b, bs) ==
    IF i > Len(bar_type) THEN [some |-> TRUE, value |-> acc]
    ELSE IF Len(bs[bar_type[i]]) = 0 THEN [some |-> FALSE, value |-> acc]
    ELSE SpreadValue(i + 1,
                     FAdd(acc, FMul(b[bar_type[i]], Num(bs[bar_type[i]][1].c))),
                     b, bs)

\* variant: a deque without maxlen, nothing is evicted
DequeAppend_unbounded(s, x) == Append(s, x)

\* deque(maxlen=formation_window).append
DequeAppend(s, x) ==
    IF Len(s) >= formation_window
    THEN SubSeq(s, 2, Len(s)) \o <<x>>
    ELSE Append(s, x)

\* spread series after _update_spread
_update_spread(s, b, bs) ==
    LET r == SpreadValue(1, Num(0), b, bs)
    IN IF r.some THEN DequeAppend(s, r.value) ELSE s

\* variant: the window test passes one sample early
WindowFull_early(s) == Len(s) >= formation_window - 1

\* the window test of on_bar: len(self.spread) >= formation_window
WindowFull(s) == Len(s) >= formation_window

\* ---------------------------------------------------------------- z-score
RECURSIVE SumSeq(_)
SumSeq(s) == IF s = <<>> THEN 0 ELSE Head(s) + SumSeq(Tail(s))

AllNum(s) == \A i \in 1..Len(s) : s[i].tag = "num"

Vals(s) == [i \in 1..Len(s) |-> s[i].val]

\* W*last - sum: the numerator of z, times W
ZD(s) == Len(s) * s[Len(s)].val - SumSeq(Vals(s))

\* W*sum(x^2) - sum(x)^2: the sample variance, times W*(W-1)
ZV(s) == Len(s) * SumSeq([i \in 1..Len(s) |-> s[i].val * s[i].val])
         - SumSeq(Vals(s)) * SumSeq(Vals(s))

ZNone == [tag |-> "none", d |-> 0, v |-> 0]

ZNaN == [tag |-> "nan", d |-> 0, v |-> 0]

\* variant: the zero test never succeeds
StdIsZero_never(s) == AllNum(s) /\ ZV(s) < 0

\* np.std(spread_array, ddof=1) == 0
StdIsZero(s) == AllNum(s) /\ ZV(s) = 0

\* z_score = (spread_array[-1] - mean_spread) / std_spread
ZScore(s) ==
    IF ~AllNum(s) THEN ZNaN
    ELSE IF ZV(s) = 0 THEN ZNaN
    ELSE [tag |-> "num", d |-> ZD(s), v |-> ZV(s)]

\* z > t/2
ZGreater(z, t) ==
    /\ z.tag = "num"
    /\ LET lhs == 4 * z.d * z.d * (formation_window - 1)
           rhs == t * t * formation_window * z.v
       IN IF t >= 0 THEN z.d > 0 /\ lhs > rhs
          ELSE z.d >= 0 \/ lhs < rhs

\* z < t/2
ZLess(z, t) ==
    /\ z.tag = "num"
    /\ LET lhs == 4 * z.d * z.d * (formation_window - 1)
           rhs == t * t * formation_window * z.v
       IN IF t <= 0 THEN z.d < 0 /\ lhs > rhs
          ELSE z.d <= 0 \/ lhs < rhs

\* abs(z) < t/2
ZAbsLess(z, t) ==
    /\ z.tag = "num"
    /\ t > 0
    /\ 4 * z.d * z.d * (formation_window - 1) < t * t * formation_window * z.v

\* ------------------------------------------------------- position ledger
\* _close_all_positions: one close_position order per open position
_close_all_positions(pos) == { [kind |-> "close", leg |-> l] : l \in pos }

EntryNone == [orderside |-> "none", leg |-> 0, beta |-> Num(0),
              price |-> 0, capital_to_risk |-> 0,
              quantity_num |-> 0, quantity_den |-> 0,
              order_side |-> "none", raised |-> "none"]

\* open_positions: the first iteration of the loop over bar_type.  The
\* quantity divides by capital_to_risk/2, and the market() call reads
\* self.instrument1.maquantity, an attribute no instrument has, so the call
\* never returns: no order is created and the exception leaves on_bar.
\* quantity = (close / (capital_to_risk/2)) * beta * long_short_ratio is kept
\* as the fraction quantity_num / quantity_den.
open_positions(orderside, b, bs, equity) ==
    LET long_short_ratio == IF orderside = "BUY" THEN 1 ELSE -1
        capital_to_risk == equity \div 100
        leg == bar_type[1]
        beta == b[leg]
        price == bs[leg][1].c
    IN IF capital_to_risk = 0
       THEN [orderside |-> orderside, leg |-> leg, beta |-> beta,
             price |-> price, capital_to_risk |-> capital_to_risk,
             quantity_num |-> 0, quantity_den |-> 0,
             order_side |-> "none", raised |-> "ZeroDivisionError"]
       ELSE [orderside |-> orderside, leg |-> leg, beta |-> beta,
             price |-> price, capital_to_risk |-> capital_to_risk,
             quantity_num |-> 2 * price * beta.val * long_short_ratio,
             quantity_den |-> capital_to_risk,
             order_side |-> IF beta.tag # "nan" /\ beta.val > 0
                            THEN "BUY" ELSE "SELL",
             raised |-> "AttributeError"]

\* the row on_bar appends to calc_pd
DiagnosticRow(bs, b, s, z) ==
    [price_1 |-> bs[1][1], price_2 |-> bs[2][1],
     beta_1 |-> b[1], beta_2 |-> b[1],
     spread |-> s[Len(s)], z_score |-> z]

\* ---------------------------------------------------------------- on_bar
\* variant: the entry tests follow the exit test instead of being its else
\* branch
on_bar_sequential(bs, est, newPeriod) ==
    IF ~_has_enough_bars(bs)
    THEN /\ result' = "skip"
         /\ z_score' = ZNone
         /\ entry' = EntryNone
         /\ estimation' = "none"
         /\ samplesInPeriod' = IF newPeriod THEN 0 ELSE samplesInPeriod
         /\ UNCHANGED <<betas, spread, orders, calc_pd, error,
                        data, lastSample>>
    ELSE
      LET b == _update_betas(betas, est)
          s == _update_spread(spread, b, bs)
          appended == SpreadValue(1, Num(0), b, bs).some
          z == ZScore(s)
      IN /\ betas' = b
         /\ estimation' = EstimationStatus(est)
         /\ data' = [l \in Legs |-> PriceData(bs, l)]
         /\ spread' = s
         /\ samplesInPeriod' = (IF newPeriod THEN 0 ELSE samplesInPeriod)
                               + (IF appended THEN 1 ELSE 0)
         /\ lastSample' = IF appended
                          THEN [l \in Legs |-> bs[l][1].p]
                          ELSE lastSample
         /\ IF ~WindowFull(s)
            THEN /\ result' = "warmup"
                 /\ z_score' = ZNone
                 /\ entry' = EntryNone
                 /\ UNCHANGED <<orders, calc_pd, error>>
            ELSE IF StdIsZero(s)
            THEN /\ result' = "degenerate"
                 /\ z_score' = ZNone
                 /\ entry' = EntryNone
                 /\ UNCHANGED <<orders, calc_pd, error>>
            ELSE IF _has_open_positions(positions_open)
            THEN /\ z_score' = z
                 /\ IF ZAbsLess(z, cfg.exit_zscore_threshold)
                    THEN /\ result' = "EXIT"
                         /\ orders' =
                              orders \cup
                              _close_all_positions(positions_open)
                    ELSE /\ result' = "HOLD"
                         /\ UNCHANGED orders
                 /\ IF ZGreater(z, cfg.zscore_threshold)
                    THEN /\ \E equity \in Equities :
                              entry' = open_positions("SELL", b, bs, equity)
                         /\ error' = entry'.raised
                         /\ UNCHANGED calc_pd
                    ELSE IF ZLess(z, 0 - cfg.zscore_threshold)
                    THEN /\ \E equity \in Equities :
                              entry' = open_positions("BUY", b, bs, equity)
                         /\ error' = entry'.raised
                         /\ UNCHANGED calc_pd
                    ELSE /\ entry' = EntryNone
                         /\ calc_pd' =
                              Append(calc_pd, DiagnosticRow(bs, b, s, z))
                         /\ UNCHANGED error
            ELSE IF ZGreater(z, cfg.zscore_threshold)
            THEN /\ z_score' = z
                 /\ result' = "ENTER_SHORT_SPREAD"
                 /\ \E equity \in Equities :
                        entry' = open_positions("SELL", b, bs, equity)
                 /\ error' = entry'.raised
                 /\ UNCHANGED <<orders, calc_pd>>
            ELSE IF ZLess(z, 0 - cfg.zscore_threshold)
            THEN /\ z_score' = z
                 /\ result' = "ENTER_LONG_SPREAD"
                 /\ \E equity \in Equities :
                        entry' = open_positions("BUY", b, bs, equity)
                 /\ error' = entry'.raised
                 /\ UNCHANGED <<orders, calc_pd>>
            ELSE /\ z_score' = z
                 /\ result' = "HOLD"
                 /\ entry' = EntryNone
                 /\ calc_pd' = Append(calc_pd, DiagnosticRow(bs, b, s, z))
                 /\ UNCHANGED <<orders, error>>

\* one pass of on_bar over the cache bs, with the estimator outcome est; an
\* entry reads the account equity
on_bar(bs, est, newPeriod) ==
    IF ~_has_enough_bars(bs)
    THEN /\ result' = "skip"
         /\ z_score' = ZNone
         /\ entry' = EntryNone
         /\ estimation' = "none"
         /\ samplesInPeriod' = IF newPeriod THEN 0 ELSE samplesInPeriod
         /\ UNCHANGED <<betas, spread, orders, calc_pd, error,
                        data, lastSample>>
    ELSE
      LET b == _update_betas(betas, est)
          s == _update_spread(spread, b, bs)
          appended == SpreadValue(1, Num(0), b, bs).some
          z == ZScore(s)
      IN /\ betas' = b
         /\ estimation' = EstimationStatus(est)
         /\ data' = [l \in Legs |-> PriceData(bs, l)]
         /\ spread' = s
         /\ samplesInPeriod' = (IF newPeriod THEN 0 ELSE samplesInPeriod)
                               + (IF appended THEN 1 ELSE 0)
         /\ lastSample' = IF appended
                          THEN [l \in Legs |-> bs[l][1].p]
                          ELSE lastSample
         /\ IF ~WindowFull(s)
            THEN /\ result' = "warmup"
                 /\ z_score' = ZNone
                 /\ entry' = EntryNone
                 /\ UNCHANGED <<orders, calc_pd, error>>
            ELSE IF StdIsZero(s)
            THEN /\ result' = "degenerate"
                 /\ z_score' = ZNone
                 /\ entry' = EntryNone
                 /\ UNCHANGED <<orders, calc_pd, error>>
            ELSE IF _has_open_positions(positions_open)
            THEN /\ z_score' = z
                 /\ entry' = EntryNone
                 /\ IF ZAbsLess(z, cfg.exit_zscore_threshold)
                    THEN /\ result' = "EXIT"
                         /\ orders' =
                              orders \cup
                              _close_all_positions(positions_open)
                    ELSE /\ result' = "HOLD"
                         /\ UNCHANGED orders
                 /\ calc_pd' = Append(calc_pd, DiagnosticRow(bs, b, s, z))
                 /\ UNCHANGED error
            ELSE IF ZGreater(z, cfg.zscore_threshold)
            THEN /\ z_score' = z
                 /\ result' = "ENTER_SHORT_SPREAD"
                 /\ \E equity \in Equities :
                        entry' = open_positions("SELL", b, bs, equity)
                 /\ error' = entry'.raised
                 /\ UNCHANGED <<orders, calc_pd>>
            ELSE IF ZLess(z, 0 - cfg.zscore_threshold)
            THEN /\ z_score' = z
                 /\ result' = "ENTER_LONG_SPREAD"
                 /\ \E equity \in Equities :
                        entry' = open_positions("BUY", b, bs, equity)
                 /\ error' = entry'.raised
                 /\ UNCHANGED <<orders, calc_pd>>
            ELSE /\ z_score' = z
                 /\ result' = "HOLD"
                 /\ entry' = EntryNone
                 /\ calc_pd' = Append(calc_pd, DiagnosticRow(bs, b, s, z))
                 /\ UNCHANGED <<orders, error>>

\* ---------------------------------------------------------------- actions
Init ==
    /\ cfg \in Configs
    /\ started = FALSE
    /\ stopped = FALSE
    /\ period = 0
    /\ arrived = Legs
    /\ bars = [l \in Legs |-> <<>>]
    /\ betas = [l \in Legs |-> IF l = 1 THEN Num(1) ELSE Num(-1)]
    /\ spread = <<>>
    /\ positions_open = {}
    /\ orders = {}
    /\ calc_pd = <<>>
    /\ estimation = "none"
    /\ data = [l \in Legs |-> <<>>]
    /\ result = "none"
    /\ z_score = ZNone
    /\ entry = EntryNone
    /\ error = "none"
    /\ samplesInPeriod = 0
    /\ lastSample = [l \in Legs |-> 0]

\* bar events delivered so far
BarsReceived ==
    IF period = 0 THEN 0 ELSE 2 * (period - 1) + Cardinality(arrived)

\* on_start: the strategy subscribes to the bars of both legs
on_start ==
    /\ ~started
    /\ started' = TRUE
    /\ UNCHANGED <<cfg, stopped, period, arrived, bars, betas, spread, positions_open,
                   orders, calc_pd, result, z_score, entry, error,
                   estimation, data, samplesInPeriod, lastSample>>

\* the bar of one leg for the current period arrives (each leg once per
\* period, in either order); the cache stores it, then on_bar runs.  An
\* exception leaving on_bar ends engine.run, so nothing follows it.
BarEvent(leg, close) ==
    /\ started
    /\ ~stopped
    /\ error = "none"
    /\ LET newPeriod == arrived = Legs
           p == IF newPeriod THEN period + 1 ELSE period
           bs == AddBar(bars, leg, [p |-> p, c |-> close])
       IN /\ BarsReceived < MaxBars
          /\ ~newPeriod => leg \notin arrived
          /\ period' = p
          /\ arrived' = IF newPeriod THEN {leg} ELSE arrived \cup {leg}
          /\ bars' = bs
          /\ \E est \in EstimatorOutcomes : on_bar(bs, est, newPeriod)
    /\ UNCHANGED <<cfg, started, stopped, positions_open>>

\* the execution layer records open positions for the pair in the cache
PositionsOpened ==
    /\ started
    /\ ~stopped
    /\ error = "none"
    /\ positions_open = {}
    /\ positions_open' = Legs
    /\ UNCHANGED <<cfg, started, stopped, period, arrived, bars, betas, spread,
                   orders, calc_pd, result, z_score, entry, error,
                   estimation, data, samplesInPeriod, lastSample>>

\* the execution layer fills the close orders
PositionsClosed ==
    /\ ~stopped
    /\ orders # {}
    /\ positions_open' =
         positions_open \ { o.leg : o \in { x \in orders : x.kind = "close" } }
    /\ orders' = {}
    /\ UNCHANGED <<cfg, started, stopped, period, arrived, bars, betas, spread,
                   calc_pd, result, z_score, entry, error,
                   estimation, data, samplesInPeriod, lastSample>>

\* on_stop, called when engine.run has fed every bar: the diagnostic record
\* is written to report/calc_pd.csv, then the positions are closed.  A write
\* that fails raises out of on_stop before _close_all_positions is reached.
on_stop(written) ==
    /\ started
    /\ ~stopped
    /\ error = "none"
    /\ BarsReceived = MaxBars
    /\ stopped' = TRUE
    /\ IF written
       THEN /\ orders' = orders \cup _close_all_positions(positions_open)
            /\ UNCHANGED error
       ELSE /\ error' = "OSError"
            /\ UNCHANGED orders
    /\ UNCHANGED <<cfg, started, period, arrived, bars, betas, spread,
                   positions_open, calc_pd, result, z_score, entry,
                   estimation, data, samplesInPeriod, lastSample>>

Next ==
    \/ on_start
    \/ \E leg \in Legs, close \in Prices : BarEvent(leg, close)
    \/ PositionsOpened
    \/ PositionsClosed
    \/ \E written \in BOOLEAN : on_stop(written)

Spec == Init /\ [][Next]_vars

TypeOK ==
    /\ cfg \in Configs
    /\ started \in BOOLEAN
    /\ stopped \in BOOLEAN
    /\ BarsReceived \in 0..MaxBars
    /\ arrived \subseteq Legs
    /\ positions_open \subseteq Legs
    /\ orders \subseteq [kind : {"close", "open"}, leg : Legs]
    /\ estimation \in {"none", "raised", "ill_conditioned", "ok"}
    /\ Len(spread) <= formation_window
    /\ error \in {"none", "AttributeError", "ZeroDivisionError", "OSError"}

\* ================================================================ claims
\* a step in which on_bar ran
Pass == BarsReceived' # BarsReceived

EnterSignals == {"ENTER_LONG_SPREAD", "ENTER_SHORT_SPREAD"}

\* every sample of the series is the same finite number
ConstantSeries(s) ==
    \A i \in 1..Len(s) : s[i].tag = "num" /\ s[i].val = s[1].val

\* C1: on_bar calls open_positions only when no position is open at the
\* start of the pass, and _close_all_positions only when one is open.
C1_NoEntryWhileOpenNoExitWhileFlat ==
    [][Pass =>
         /\ (result' \in EnterSignals => positions_open = {})
         /\ (result' = "EXIT" => positions_open # {})]_vars

C1_Witness ==
    /\ result = "EXIT"
    /\ positions_open # {}
    /\ \A l \in positions_open : [kind |-> "close", leg |-> l] \in orders

\* C2: with a defined z-score the pass follows the four rules in order:
\* (1) open and |z| < exit: EXIT, a close for every open position; (2) flat
\* and z > entry: ENTER_SHORT_SPREAD, the pass completes and an opening order
\* per leg is emitted; (3) flat and z < -entry: ENTER_LONG_SPREAD likewise;
\* (4) otherwise HOLD and nothing is emitted.
C2_DecisionRules ==
    [][(Pass /\ z_score'.tag = "num") =>
         LET open == positions_open # {}
             z == z_score'
             entered == /\ error' = "none"
                        /\ \A l \in Legs :
                              [kind |-> "open", leg |-> l] \in orders'
         IN IF open /\ ZAbsLess(z, cfg.exit_zscore_threshold)
            THEN /\ result' = "EXIT"
                 /\ \A l \in positions_open :
                       [kind |-> "close", leg |-> l] \in orders'
            ELSE IF ~open /\ ZGreater(z, cfg.zscore_threshold)
            THEN result' = "ENTER_SHORT_SPREAD" /\ entered
            ELSE IF ~open /\ ZLess(z, 0 - cfg.zscore_threshold)
            THEN result' = "ENTER_LONG_SPREAD" /\ entered
            ELSE result' = "HOLD" /\ orders' = orders]_vars

\* C3: a started strategy has entry threshold > exit threshold > 0.
C3_StartedImpliesValidThresholds ==
    started =>
       /\ cfg.zscore_threshold > cfg.exit_zscore_threshold
       /\ cfg.exit_zscore_threshold > 0

\* C4: every spread sample is computed from two closes of the same period,
\* and at most one sample is appended per period.
C4_SpreadFromSamePeriod ==
    /\ lastSample[1] = lastSample[2]
    /\ samplesInPeriod <= 1

\* C5: no exception leaves an on_bar pass.
C5_NoEscapingException == error = "none"

\* C6: a pass whose estimation failed (the computation raised, or the last
\* eigenvector coefficient was zero) leaves the betas of both legs as they
\* were.
C6_FailedEstimationKeepsBetas ==
    [][(Pass /\ estimation' \in {"raised", "ill_conditioned"}) =>
         betas' = betas]_vars

\* C7: a pass that ends with a full spread window of zero standard deviation
\* produces no z-score, no order, no diagnostic row and no error.
C7_DegenerateSpreadHolds ==
    [][(Pass /\ _has_enough_bars(bars') /\ Len(spread') = formation_window
             /\ ConstantSeries(spread')) =>
         /\ result' = "degenerate"
         /\ z_score' = ZNone
         /\ UNCHANGED <<orders, calc_pd, positions_open, error>>]_vars

C7_Witness ==
    /\ result = "degenerate"
    /\ Len(spread) = formation_window
    /\ ConstantSeries(spread)

\* C8: while the spread series holds fewer than W samples no z-score has been
\* produced and no entry or exit issued by the bar passes so far; a signal is
\* only ever the result of a pass that ends with exactly W samples.
C8_NoSignalBeforeWindowFull ==
    /\ (Len(spread) < formation_window /\ ~stopped) =>
          /\ z_score = ZNone
          /\ result \in {"none", "skip", "warmup"}
          /\ orders = {}
          /\ calc_pd = <<>>
          /\ error = "none"
    /\ result \in EnterSignals \cup {"EXIT", "HOLD"} =>
          Len(spread) = formation_window

C8_Witness ==
    /\ result = "warmup"
    /\ Len(spread) = formation_window - 1

\* C9: a pass that finds fewer than W closes for either leg changes neither
\* the betas, the spread series, the positions, the diagnostic record nor
\* the orders, and raises nothing.
C9_InsufficientDataSkips ==
    [][(Pass /\ \E l \in Legs : Len(bars'[l]) < formation_window) =>
         /\ UNCHANGED <<betas, spread, positions_open, calc_pd, orders>>
         /\ error' = "none"]_vars

C9_Witness ==
    /\ result = "skip"
    /\ BarsReceived >= formation_window
    /\ \E l \in Legs : Len(bars[l]) >= formation_window

\* C10: the side computed for a leg on entry combines sign(beta) with the
\* direction: on ENTER_LONG_SPREAD (BUY) a positive-beta leg is bought and a
\* negative-beta leg sold, on ENTER_SHORT_SPREAD (SELL) the reverse.
C10_SideFollowsDirection ==
    (entry.order_side # "none") =>
       LET positive == entry.beta.val > 0
       IN entry.order_side =
            IF entry.orderside = "BUY"
            THEN (IF positive THEN "BUY" ELSE "SELL")
            ELSE (IF positive THEN "SELL" ELSE "BUY")

\* absolute value of an integer
Abs(n) == IF n < 0 THEN 0 - n ELSE n

\* C11: the quantity computed for a leg on entry has the magnitude
\* ((capital_to_risk / 2) / price) * |beta|.
C11_QuantityIsCapitalProportional ==
    (entry.raised = "AttributeError") =>
       Abs(entry.quantity_num) * 2 * entry.price =
          entry.quantity_den * entry.capital_to_risk * Abs(entry.beta.val)

\* C12: a pass that decides to enter emits exactly one opening order per leg
\* and completes.
C12_EntryEmitsOneOrderPerLeg ==
    [][(Pass /\ result' \in EnterSignals) =>
         /\ error' = "none"
         /\ { o.leg : o \in { x \in orders' \ orders : x.kind = "open" } }
               = Legs]_vars

\* C13: a pass changes the diagnostic record only by appending one row, and
\* that row holds the latest bar of leg 1, the latest bar of leg 2, the beta
\* of leg 1, the beta of leg 2, the latest spread sample and the z-score of
\* the pass.
C13_DiagnosticRowColumns ==
    [][(Pass /\ calc_pd' # calc_pd) =>
         /\ Len(calc_pd') = Len(calc_pd) + 1
         /\ SubSeq(calc_pd', 1, Len(calc_pd)) = calc_pd
         /\ LET row == calc_pd'[Len(calc_pd')]
            IN /\ row.price_1 = bars'[1][1]
               /\ row.price_2 = bars'[2][1]
               /\ row.beta_1 = betas'[1]
               /\ row.beta_2 = betas'[2]
               /\ row.spread = spread'[Len(spread')]
               /\ row.z_score = z_score']_vars

\* C14: the spread series starts empty and never holds more than W samples;
\* a pass that finds W closes for both legs appends one sample (the betas of
\* the pass times the latest closes) at the end, evicting the oldest sample
\* once W are held, and any other step leaves the series as it is.
C14_SpreadSeriesIsFifoWindow ==
    /\ spread = <<>>
    /\ [][/\ Len(spread) <= formation_window
          /\ Len(spread') <= formation_window
          /\ IF Pass /\ \A l \in Legs : Len(bars'[l]) >= formation_window
             THEN LET x == FAdd(FMul(betas'[1], Num(bars'[1][1].c)),
                               FMul(betas'[2], Num(bars'[2][1].c)))
                  IN spread' = IF Len(spread) < formation_window
                               THEN spread \o <<x>>
                               ELSE Tail(spread) \o <<x>>
             ELSE spread' = spread]_vars

\* a pass has evicted the oldest sample of a full series
C14_Witness ==
    /\ BarsReceived >= 3 * formation_window
    /\ Len(spread) = formation_window
    /\ result \notin {"none", "skip", "warmup"}

\* the closes of a leg in arrival order, oldest first (the cache holds them
\* newest first)
ArrivalOrder(bs, l) == [i \in 1..Len(bs[l]) |-> bs[l][Len(bs[l]) + 1 - i].c]

\* C15: the closes handed to the estimator for a leg are exactly W, they are
\* the W most recently received closes of the leg in arrival order, and the
\* last of them is the close of the bar _update_spread reads as the latest.
C15_EstimatorGetsLatestWindow ==
    (estimation # "none") =>
       \A l \in Legs :
          /\ Len(data[l]) = formation_window
          /\ data[l] = SubSeq(ArrivalOrder(bars, l),
                              Len(bars[l]) - formation_window + 1,
                              Len(bars[l]))
          /\ data[l][formation_window] = bars[l][1].c

\* a float of magnitude 1
MagnitudeOne(x) == x.tag = "num" /\ Abs(x.val) = 1

\* C16: the betas hold one entry per leg of the pair, and exactly one of the
\* two coefficients has magnitude 1.
C16_OneReferenceCoefficient ==
    /\ DOMAIN betas = Legs
    /\ Cardinality({ l \in Legs : MagnitudeOne(betas[l]) }) = 1

\* C17: once on_stop has been invoked, a close has been requested for every
\* position that was open, whether or not the report was written.
C17_StopClosesEveryPosition ==
    stopped =>
       \A l \in positions_open : [kind |-> "close", leg |-> l] \in orders

\* C18: a pass never both opens and closes positions, whatever the
\* thresholds: a pass that requests closes attempts no entry, and a pass
\* that attempts an entry requests no close.
C18_AtMostOnePositionAction ==
    [][Pass =>
         LET closes == result' = "EXIT" \/ orders' # orders
             opens == entry' # EntryNone
         IN ~(closes /\ opens)]_vars

\* with entry threshold <= exit threshold, a pass whose z-score is inside
\* the exit band and beyond the entry threshold only closes
C18_Witness ==
    /\ cfg.zscore_threshold <= cfg.exit_zscore_threshold
    /\ result = "EXIT"
    /\ entry = EntryNone
    /\ error = "none"
    /\ \/ ZGreater(z_score, cfg.zscore_threshold)
       \/ ZLess(z_score, 0 - cfg.zscore_threshold)

====
